---------------------------- MODULE Spec2Model ----------------------------
(***************************************************************************)
(* Model of the game engine API (routes/gameRoutes.js, models/Drawing.js). *)
(* Two document collections (games, drawings) and the request handlers of  *)
(* the router. A handler that is not overlapped by another request runs    *)
(* from its first store read to its response as one step; the overlapping  *)
(* handlers of SpecRace are split at their awaits.                         *)
(***************************************************************************)
EXTENDS Integers, Sequences, FiniteSets, TLC

\* ------------------------------------------------------------------ bounds
MaxGames == 2
MaxRoster == 2
MaxDrawings == 2
MaxPending == 2

GameCodes == {"1000", "2000"}
PlayerNames == {"amy", "test"}
PartNames == {"Hat", "Head"}

VARIABLES
    strictQuery,    \* the ODM's strictQuery setting of the installed build
    storeUp,        \* the document store answers (FALSE: its operations reject)
    pending,        \* the handlers that await their save: a set of contexts
    games,          \* the Game collection, in insertion order
    drawings,       \* the Drawing collection, in insertion order
    drawingBodies,  \* history: the request body each Drawing was created from
    startedByStatus, \* history: the games an updateGameStatus has started
    req,            \* the request handled last
    resp            \* its response: [status, json]

vars ==
    <<strictQuery, storeUp, pending, games, drawings, drawingBodies, startedByStatus, req, resp>>

\* ------------------------------------------------------ the document store
\* The schema of models/Drawing.js (the fields the handlers read or filter on).
DrawingPaths == {"drawing_points", "is_completed", "player_name", "player_part"}

\* The schema of models/Game.js.
GamePaths ==
    {"game_code", "games_Parts", "players", "number_of_players", "join",
     "start_game", "drawing_time"}

\* Schema strict mode: fields that are not paths of the schema are dropped.
Cast(obj, paths) == [f \in (DOMAIN obj) \cap paths |-> obj[f]]

\* new Drawing(drawingData)
NewDrawing(drawingData) == Cast(drawingData, DrawingPaths)

\* Mutant of NewGame: the schema has no games_Parts path.
NewGameWithoutParts(gameData) == Cast(gameData, GamePaths \ {"games_Parts"})

\* new Game(gameData)
NewGame(gameData) == Cast(gameData, GamePaths)

\* The filter the store receives: with strictQuery the ODM removes the
\* fields that are not paths of the schema, without it they are passed on.
CastFilter(filter, paths) == IF strictQuery THEN Cast(filter, paths) ELSE filter

\* A document matches a filter when it has every field of the filter with
\* the value of the filter.
Matches(doc, filter) ==
    \A f \in DOMAIN filter : f \in DOMAIN doc /\ doc[f] = filter[f]

\* Drawing.find(filter)
DrawingFind(filter) ==
    SelectSeq(drawings, LAMBDA d : Matches(d, CastFilter(filter, DrawingPaths)))

\* Mutant of GameFindOne: the last game that matches is taken.
GameFindOneLast(game_code) ==
    LET filter == CastFilter([game_code |-> game_code], GamePaths)
        hits == {i \in 1..Len(games) : Matches(games[i], filter)}
    IN  IF hits = {} THEN 0 ELSE CHOOSE i \in hits : \A j \in hits : i >= j

\* Mutant of GameFindOne: when no game matches, the first game is taken.
GameFindOneOrFirst(game_code) ==
    LET filter == CastFilter([game_code |-> game_code], GamePaths)
        hits == {i \in 1..Len(games) : Matches(games[i], filter)}
    IN  IF hits = {} THEN (IF Len(games) > 0 THEN 1 ELSE 0)
        ELSE CHOOSE i \in hits : \A j \in hits : i <= j

\* Game.findOne({ game_code }): the position of the first match, 0 for null.
GameFindOne(game_code) ==
    LET filter == CastFilter([game_code |-> game_code], GamePaths)
        hits == {i \in 1..Len(games) : Matches(games[i], filter)}
    IN  IF hits = {} THEN 0 ELSE CHOOSE i \in hits : \A j \in hits : i <= j

\* ------------------------------------------------------------ request data
\* req.body.player_data of validateJoinGame and updateGameWithPlayer.
PlayerData == [player_name : PlayerNames, game_code : {""}]

JoinBodies == [game_code : GameCodes, player_data : PlayerData]

\* req.body of storeGameState.
GameBodies ==
    [game_code : GameCodes, games_Parts : {<<"Hat", "Head">>},
     players : {<<>>}, number_of_players : {0, 1},
     join : BOOLEAN, start_game : BOOLEAN, drawing_time : {0}]

\* The lobbies of GameBodies that are open for joining and consistent.
OpenGameBodies ==
    {b \in GameBodies : b.join /\ ~b.start_game /\ b.number_of_players = 0}

\* req.body of updateGameStatus: game_code and any of the three flags.
StatusBodies ==
    {Cast(b, {"game_code"} \cup present) :
        b \in [game_code : GameCodes, start_game : BOOLEAN, join : BOOLEAN,
               drawing_time : {30}],
        present \in SUBSET {"start_game", "join", "drawing_time"}}

\* The requests of StatusBodies that leave drawing_time out.
FlagBodies == {b \in StatusBodies : "drawing_time" \notin DOMAIN b}

\* req.body of updateDrawingStatus.
DrawingBodies ==
    [game_code : GameCodes, player_name : PlayerNames, player_part : PartNames,
     is_completed : BOOLEAN, drawing_points : {<<>>}]

\* The texts a Number path casts to a number.
NumberTexts == {"7"}

\* Bodies of updateDrawingStatus whose player_id does not cast to a Number.
InvalidDrawingBodies ==
    [game_code : GameCodes, player_name : {"test"}, player_part : {"Hat"},
     is_completed : {TRUE}, drawing_points : {<<>>}, player_id : {"seven"}]

\* Bodies of storeGameState that lack the required game_code.
InvalidGameBodies ==
    {Cast(b, (DOMAIN b) \ {"game_code"}) : b \in OpenGameBodies}

NoRequest == [op |-> "none"]
NoResponse == [status |-> 0]

\* ---------------------------------------------------------------- handlers
\* History: every incompleteUsers that awaits its read of the drawings keeps
\* the states the store went through since its read of the game. Watched is
\* the value of pending after a write to the store.
Watched ==
    {IF c.op = "incompleteUsers"
     THEN [c EXCEPT !.states =
              @ \cup {[games |-> games', drawingBodies |-> drawingBodies']}]
     ELSE c : c \in pending}

\* The response of a catch block: the status it sets and error.message.
Caught(status, message) == [status |-> status, json |-> [message |-> message]]

\* The required paths of a Game.
GameRequired == {"game_code", "games_Parts", "players"}

\* The validation that game.save() runs before it writes.
GameValid(gameData) == GameRequired \subseteq DOMAIN gameData

\* The validation that drawing.save() runs before it writes: player_id, when
\* given, casts to a Number.
DrawingValid(drawingData) ==
    "player_id" \in DOMAIN drawingData => drawingData.player_id \in NumberTexts

\* router.post('/storeGameState')
storeGameState(gameData) ==
    /\ req' = [op |-> "storeGameState", body |-> gameData]
    /\ IF ~GameValid(gameData)
       THEN /\ resp' = Caught(400, "Game validation failed")
            /\ games' = games
       ELSE IF ~storeUp
       THEN /\ resp' = Caught(400, "store operation failed")
            /\ games' = games
       ELSE LET game == NewGame(gameData) IN
            /\ Len(games) < MaxGames
            /\ games' = Append(games, game)
            /\ resp' = [status |-> 201,
                        json |-> [message |-> "Game state stored successfully",
                                  game |-> game]]
    /\ UNCHANGED <<strictQuery, storeUp, drawings, drawingBodies,
                   startedByStatus>>
    /\ pending' = Watched

\* Mutant of updateDrawingStatus: a record of the same player and part is
\* replaced by the new one (an upsert).
updateDrawingStatusUpsert(drawingData) ==
    /\ req' = [op |-> "updateDrawingStatus", body |-> drawingData]
    /\ IF ~DrawingValid(drawingData)
       THEN /\ resp' = Caught(400, "Drawing validation failed")
            /\ UNCHANGED <<drawings, drawingBodies>>
       ELSE IF ~storeUp
       THEN /\ resp' = Caught(400, "store operation failed")
            /\ UNCHANGED <<drawings, drawingBodies>>
       ELSE LET drawing == NewDrawing(drawingData)
                same == {i \in 1..Len(drawings) :
                            /\ drawings[i].player_name = drawing.player_name
                            /\ drawings[i].player_part = drawing.player_part}
            IN
            /\ same = {} => Len(drawings) < MaxDrawings
            /\ drawings' =
                 IF same = {} THEN Append(drawings, drawing)
                 ELSE [i \in 1..Len(drawings) |->
                          IF i \in same THEN drawing ELSE drawings[i]]
            /\ drawingBodies' =
                 IF same = {} THEN Append(drawingBodies, drawingData)
                 ELSE [i \in 1..Len(drawings) |->
                          IF i \in same THEN drawingData ELSE drawingBodies[i]]
            /\ resp' = [status |-> 201,
                        json |-> [message |-> "Drawing status updated successfully",
                                  drawing |-> drawing]]
    /\ UNCHANGED <<strictQuery, storeUp, pending, games, startedByStatus>>

\* Mutant of updateDrawingStatus: the record is inserted before the body is
\* validated.
updateDrawingStatusInsertFirst(drawingData) ==
    /\ req' = [op |-> "updateDrawingStatus", body |-> drawingData]
    /\ IF ~storeUp
       THEN /\ resp' = Caught(400, "store operation failed")
            /\ UNCHANGED <<drawings, drawingBodies>>
       ELSE LET drawing == NewDrawing(drawingData) IN
            /\ Len(drawings) < MaxDrawings
            /\ drawings' = Append(drawings, drawing)
            /\ drawingBodies' = Append(drawingBodies, drawingData)
            /\ resp' = IF ~DrawingValid(drawingData)
                       THEN Caught(400, "Drawing validation failed")
                       ELSE [status |-> 201,
                             json |-> [message |-> "Drawing status updated successfully",
                                       drawing |-> drawing]]
    /\ UNCHANGED <<strictQuery, storeUp, pending, games, startedByStatus>>

\* router.post('/updateDrawingStatus')
updateDrawingStatus(drawingData) ==
    /\ req' = [op |-> "updateDrawingStatus", body |-> drawingData]
    /\ IF ~DrawingValid(drawingData)
       THEN /\ resp' = Caught(400, "Drawing validation failed")
            /\ UNCHANGED <<drawings, drawingBodies>>
       ELSE IF ~storeUp
       THEN /\ resp' = Caught(400, "store operation failed")
            /\ UNCHANGED <<drawings, drawingBodies>>
       ELSE LET drawing == NewDrawing(drawingData) IN
            /\ Len(drawings) < MaxDrawings
            /\ drawings' = Append(drawings, drawing)
            /\ drawingBodies' = Append(drawingBodies, drawingData)
            /\ resp' = [status |-> 201,
                        json |-> [message |-> "Drawing status updated successfully",
                                  drawing |-> drawing]]
    /\ UNCHANGED <<strictQuery, storeUp, games, startedByStatus>>
    /\ pending' = Watched

\* game.players.map(player => player.player_name)
PlayerNamesOf(game) ==
    [i \in 1..Len(game.players) |-> game.players[i].player_name]

\* Mutant of CompletedFilter: the filter selects the drawings that are not
\* completed.
CompletedFilterNotCompleted(game_code, part_name) ==
    [game_code |-> game_code, player_part |-> part_name, is_completed |-> FALSE]

\* The filter of Drawing.find in incompleteUsers.
CompletedFilter(game_code, part_name) ==
    [game_code |-> game_code, player_part |-> part_name, is_completed |-> TRUE]

\* allPlayerNames.filter(name => !completedPlayerNames.includes(name))
FilterIncomplete(allPlayerNames, completedPlayerNames) ==
    SelectSeq(allPlayerNames, LAMBDA name : name \notin completedPlayerNames)

\* Mutant of incompleteUsersResponse: the list is made of the names of the
\* drawings of the part that are not completed.
incompleteUsersResponseFromDrawings(game_code, part_name) ==
    LET id == GameFindOne(game_code) IN
    IF ~storeUp
    THEN Caught(500, "store operation failed")
    ELSE IF id = 0
    THEN [status |-> 404, json |-> [message |-> "Game not found"]]
    ELSE
      LET incompleteDrawings ==
              DrawingFind([player_part |-> part_name, is_completed |-> FALSE])
          incompletePlayers ==
              [i \in 1..Len(incompleteDrawings) |->
                  incompleteDrawings[i].player_name]
      IN  [status |-> 200, json |-> [incompletePlayers |-> incompletePlayers]]

\* Mutant of incompleteUsersResponse: a player has completed the part when
\* the player's last Drawing of the part is completed.
incompleteUsersResponseLatest(game_code, part_name) ==
    LET id == GameFindOne(game_code) IN
    IF ~storeUp
    THEN Caught(500, "store operation failed")
    ELSE IF id = 0
    THEN [status |-> 404, json |-> [message |-> "Game not found"]]
    ELSE
      LET game == games[id]
          allPlayerNames == PlayerNamesOf(game)
          ofPart == DrawingFind(
                        CastFilter([game_code |-> game_code,
                                    player_part |-> part_name], DrawingPaths))
          completedPlayerNames ==
              {ofPart[i].player_name : i \in
                  {j \in 1..Len(ofPart) :
                      /\ ofPart[j].is_completed
                      /\ \A k \in (j + 1)..Len(ofPart) :
                            ofPart[k].player_name # ofPart[j].player_name}}
          incompletePlayers == FilterIncomplete(allPlayerNames, completedPlayerNames)
      IN  [status |-> 200, json |-> [incompletePlayers |-> incompletePlayers]]

\* Mutant of incompleteUsersResponse: a part name that is none of the game's
\* games_Parts is answered 404.
incompleteUsersResponseKnownPart(game_code, part_name) ==
    LET id == GameFindOne(game_code) IN
    IF ~storeUp
    THEN Caught(500, "store operation failed")
    ELSE IF id = 0
    THEN [status |-> 404, json |-> [message |-> "Game not found"]]
    ELSE IF \A i \in 1..Len(games[id].games_Parts) :
                games[id].games_Parts[i] # part_name
    THEN [status |-> 404, json |-> [message |-> "Part not found"]]
    ELSE
      LET game == games[id]
          allPlayerNames == PlayerNamesOf(game)
          completedDrawings == DrawingFind(CompletedFilter(game_code, part_name))
          completedPlayerNames ==
              {completedDrawings[i].player_name : i \in 1..Len(completedDrawings)}
          incompletePlayers == FilterIncomplete(allPlayerNames, completedPlayerNames)
      IN  [status |-> 200, json |-> [incompletePlayers |-> incompletePlayers]]

\* The response of router.get('/incompleteUsers/:game_code/:part_name').
incompleteUsersResponse(game_code, part_name) ==
    LET id == GameFindOne(game_code) IN
    IF ~storeUp
    THEN Caught(500, "store operation failed")
    ELSE IF id = 0
    THEN [status |-> 404, json |-> [message |-> "Game not found"]]
    ELSE
      LET game == games[id]
          allPlayerNames == PlayerNamesOf(game)
          completedDrawings == DrawingFind(CompletedFilter(game_code, part_name))
          completedPlayerNames ==
              {completedDrawings[i].player_name : i \in 1..Len(completedDrawings)}
          incompletePlayers == FilterIncomplete(allPlayerNames, completedPlayerNames)
      IN  [status |-> 200, json |-> [incompletePlayers |-> incompletePlayers]]

\* router.get('/incompleteUsers/:game_code/:part_name')
incompleteUsers(game_code, part_name) ==
    /\ req' = [op |-> "incompleteUsers", game_code |-> game_code,
               part_name |-> part_name]
    /\ resp' = incompleteUsersResponse(game_code, part_name)
    /\ UNCHANGED <<strictQuery, storeUp, pending, games, drawings,
                   drawingBodies, startedByStatus>>

\* updatedPlayerData = {...player_data, game_code: game_code, ...}
UpdatedPlayerData(game_code, player_data) ==
    [player_data EXCEPT !.game_code = game_code]

\* Mutant of PushPlayer: the player is put at the front of the roster.
PushPlayerFront(game, updatedPlayerData) ==
    LET players == <<updatedPlayerData>> \o game.players IN
    [game EXCEPT !.players = players, !.number_of_players = Len(players)]

\* Mutant of PushPlayer: number_of_players is incremented, not recomputed.
PushPlayerIncrement(game, updatedPlayerData) ==
    [game EXCEPT !.players = Append(@, updatedPlayerData),
                 !.number_of_players = @ + 1]

\* game.players.push(updatedPlayerData);
\* game.number_of_players = game.players.length;
PushPlayer(game, updatedPlayerData) ==
    LET players == Append(game.players, updatedPlayerData) IN
    [game EXCEPT !.players = players, !.number_of_players = Len(players)]

\* await game.save() of the document found at position id.
GameSave(id, game) == [games EXCEPT ![id] = game]

\* Mutant of JoinCheck: the join flag is checked before start_game.
JoinCheckJoinFirst(game) ==
    IF ~game.join
    THEN [status |-> 400,
          json |-> [message |-> "Room is not accepting new players",
                    canJoin |-> FALSE]]
    ELSE IF game.start_game
    THEN [status |-> 400,
          json |-> [message |-> "Room already started", canJoin |-> FALSE]]
    ELSE [status |-> 200]

\* Mutant of JoinCheck: the join flag is not checked.
JoinCheckStartOnly(game) ==
    IF game.start_game
    THEN [status |-> 400,
          json |-> [message |-> "Room already started", canJoin |-> FALSE]]
    ELSE [status |-> 200]

\* The checks of validateJoinGame on the game it found: the response that
\* refuses the join, or status 200 when the player is to be added.
JoinCheck(game) ==
    IF game.start_game
    THEN [status |-> 400,
          json |-> [message |-> "Room already started", canJoin |-> FALSE]]
    ELSE IF ~game.join
    THEN [status |-> 400,
          json |-> [message |-> "Room is not accepting new players",
                    canJoin |-> FALSE]]
    ELSE [status |-> 200]

\* router.post('/validateJoinGame')
validateJoinGame(body) ==
    LET game_code == body.game_code
        id == GameFindOne(game_code)
    IN
    /\ req' = [op |-> "validateJoinGame", body |-> body]
    /\ IF ~storeUp
       THEN /\ resp' = Caught(500, "store operation failed")
            /\ games' = games
       ELSE IF id = 0
       THEN /\ resp' = [status |-> 404, json |-> [message |-> "Game not found"]]
            /\ games' = games
       ELSE IF JoinCheck(games[id]).status # 200
       THEN /\ resp' = JoinCheck(games[id])
            /\ games' = games
       ELSE LET game == PushPlayer(games[id],
                           UpdatedPlayerData(game_code, body.player_data))
            IN  /\ Len(games[id].players) < MaxRoster
                /\ games' = GameSave(id, game)
                /\ resp' = [status |-> 200,
                            json |-> [message |-> "User joined the game successfully",
                                      canJoin |-> TRUE,
                                      game |-> [game_code |-> game.game_code,
                                                number_of_players |-> game.number_of_players,
                                                games_Parts |-> game.games_Parts,
                                                players |-> game.players]]]
    /\ UNCHANGED <<strictQuery, storeUp, drawings, drawingBodies,
                   startedByStatus>>
    /\ pending' = Watched

\* router.put('/updateGameWithPlayer')
updateGameWithPlayer(body) ==
    LET game_code == body.game_code
        id == GameFindOne(game_code)
    IN
    /\ req' = [op |-> "updateGameWithPlayer", body |-> body]
    /\ IF ~storeUp
       THEN /\ resp' = Caught(500, "store operation failed")
            /\ games' = games
       ELSE IF id = 0
       THEN /\ resp' = [status |-> 404, json |-> [message |-> "Game not found"]]
            /\ games' = games
       ELSE LET game == PushPlayer(games[id],
                           UpdatedPlayerData(game_code, body.player_data))
            IN  /\ Len(games[id].players) < MaxRoster
                /\ games' = GameSave(id, game)
                /\ resp' = [status |-> 200,
                            json |-> [message |-> "Game updated successfully",
                                      game |-> game]]
    /\ UNCHANGED <<strictQuery, storeUp, drawings, drawingBodies,
                   startedByStatus>>
    /\ pending' = Watched

\* Mutant of ApplyStatus: start_game of the request is not applied.
ApplyStatusKeepStart(game, body) ==
    [game EXCEPT
       !.join = IF "join" \in DOMAIN body THEN body.join ELSE @,
       !.drawing_time =
           IF "drawing_time" \in DOMAIN body THEN body.drawing_time ELSE @]

\* "Update only the fields that are provided" of updateGameStatus.
ApplyStatus(game, body) ==
    [game EXCEPT
       !.start_game = IF "start_game" \in DOMAIN body THEN body.start_game ELSE @,
       !.join = IF "join" \in DOMAIN body THEN body.join ELSE @,
       !.drawing_time =
           IF "drawing_time" \in DOMAIN body THEN body.drawing_time ELSE @]

\* router.put('/updateGameStatus')
updateGameStatus(body) ==
    LET id == GameFindOne(body.game_code) IN
    /\ req' = [op |-> "updateGameStatus", body |-> body]
    /\ IF ~storeUp
       THEN /\ resp' = Caught(500, "store operation failed")
            /\ games' = games
            /\ startedByStatus' = startedByStatus
       ELSE IF id = 0
       THEN /\ resp' = [status |-> 404, json |-> [message |-> "Game not found"]]
            /\ games' = games
            /\ startedByStatus' = startedByStatus
       ELSE LET game == ApplyStatus(games[id], body) IN
            /\ games' = GameSave(id, game)
            /\ resp' = [status |-> 200,
                        json |-> [message |-> "Game status updated successfully",
                                  game |-> game]]
            /\ startedByStatus' =
                 IF "start_game" \in DOMAIN body
                 THEN IF body.start_game THEN startedByStatus \cup {id}
                      ELSE startedByStatus \ {id}
                 ELSE startedByStatus
    /\ UNCHANGED <<strictQuery, storeUp, drawings, drawingBodies>>
    /\ pending' = Watched

\* Mutant of getGameData: a game that is not found is created (an upsert).
getGameDataUpsert(game_code) ==
    LET id == GameFindOne(game_code) IN
    /\ req' = [op |-> "getGameData", game_code |-> game_code]
    /\ games' = IF storeUp /\ id = 0 /\ Len(games) < MaxGames
                THEN Append(games, [game_code |-> game_code])
                ELSE games
    /\ resp' = IF ~storeUp
               THEN Caught(500, "store operation failed")
               ELSE [status |-> 200,
                     json |-> [message |-> "Game data retrieved successfully"]]
    /\ UNCHANGED <<strictQuery, storeUp, pending, drawings, drawingBodies,
                   startedByStatus>>

\* router.get('/getGameData/:game_code')
getGameData(game_code) ==
    LET id == GameFindOne(game_code) IN
    /\ req' = [op |-> "getGameData", game_code |-> game_code]
    /\ resp' = IF ~storeUp
               THEN Caught(500, "store operation failed")
               ELSE IF id = 0
               THEN [status |-> 404, json |-> [message |-> "Game not found"]]
               ELSE [status |-> 200,
                     json |-> [message |-> "Game data retrieved successfully",
                               game |-> games[id]]]
    /\ UNCHANGED <<strictQuery, storeUp, pending, games, drawings,
                   drawingBodies, startedByStatus>>

\* The response of router.get('/getDrawing/:game_code/:player_name/:part_name').
getDrawingResponse(game_code, player_name, part_name) ==
    LET found == DrawingFind([game_code |-> game_code,
                              player_name |-> player_name,
                              player_part |-> part_name])
    IN  IF ~storeUp
        THEN Caught(404, "store operation failed")
        ELSE IF found = <<>>
        THEN [status |-> 404, json |-> [message |-> "Drawing not found"]]
        ELSE [status |-> 200,
              json |-> [drawing_points |-> Head(found).drawing_points,
                        is_completed |-> Head(found).is_completed]]

\* router.get('/getDrawing/:game_code/:player_name/:part_name')
getDrawing(game_code, player_name, part_name) ==
    /\ req' = [op |-> "getDrawing", game_code |-> game_code,
               player_name |-> player_name, part_name |-> part_name]
    /\ resp' = getDrawingResponse(game_code, player_name, part_name)
    /\ UNCHANGED <<strictQuery, storeUp, pending, games, drawings,
                   drawingBodies, startedByStatus>>

\* The response of router.get('/completedDrawings/:game_code').
completedDrawingsResponse(game_code) ==
    LET completedDrawings == DrawingFind([is_completed |-> TRUE]) IN
    IF ~storeUp
    THEN Caught(500, "store operation failed")
    ELSE IF Len(completedDrawings) = 0
    THEN [status |-> 404, json |-> [message |-> "No completed drawings found"]]
    ELSE [status |-> 200, json |-> completedDrawings]

\* router.get('/completedDrawings/:game_code')
completedDrawings(game_code) ==
    /\ req' = [op |-> "completedDrawings", game_code |-> game_code]
    /\ resp' = completedDrawingsResponse(game_code)
    /\ UNCHANGED <<strictQuery, storeUp, pending, games, drawings,
                   drawingBodies, startedByStatus>>

\* ------------------------------------------ handlers split at their awaits
\* The slot of the next handler that awaits its save.
FreeSlot == CHOOSE k \in 1..MaxPending : \A c \in pending : c.slot # k

\* The handlers on game id that await their save after adding a player.
PendingJoins(id) == {c \in pending : c.op = "validateJoinGame" /\ c.id = id}

\* Mutant of GameSaveDelta: number_of_players is written as the length of the
\* roster in the store.
GameSaveRecount(id, read, game) ==
    LET stored == games[id]
        pushed == SubSeq(game.players, Len(read.players) + 1, Len(game.players))
        modified == {f \in (DOMAIN game) \ {"players"} : game[f] # read[f]}
    IN  [games EXCEPT ![id] =
           [f \in DOMAIN stored |->
              IF f = "players" THEN stored.players \o pushed
              ELSE IF f = "number_of_players" THEN Len(stored.players \o pushed)
              ELSE IF f \in modified THEN game[f]
              ELSE stored[f]]]

\* Mutant of GameSaveDelta: the document in the store is replaced by the
\* handler's copy.
GameSaveReplace(id, read, game) == [games EXCEPT ![id] = game]

\* await game.save() of the document read as `read` and changed to `game`:
\* the ODM writes the changes only, the pushed players as a push onto the
\* stored roster and each other modified path as a set.
GameSaveDelta(id, read, game) ==
    LET stored == games[id]
        pushed == SubSeq(game.players, Len(read.players) + 1, Len(game.players))
        modified == {f \in (DOMAIN game) \ {"players"} : game[f] # read[f]}
    IN  [games EXCEPT ![id] =
           [f \in DOMAIN stored |->
              IF f = "players" THEN stored.players \o pushed
              ELSE IF f \in modified THEN game[f]
              ELSE stored[f]]]

\* router.post('/validateJoinGame') up to await game.save()
validateJoinGameRead(body) ==
    LET game_code == body.game_code
        id == GameFindOne(game_code)
        request == [op |-> "validateJoinGame", body |-> body]
    IN
    /\ IF ~storeUp
       THEN /\ resp' = Caught(500, "store operation failed")
            /\ req' = request
            /\ pending' = pending
       ELSE IF id = 0
       THEN /\ resp' = [status |-> 404, json |-> [message |-> "Game not found"]]
            /\ req' = request
            /\ pending' = pending
       ELSE IF JoinCheck(games[id]).status # 200
       THEN /\ resp' = JoinCheck(games[id])
            /\ req' = request
            /\ pending' = pending
       ELSE LET game == PushPlayer(games[id],
                           UpdatedPlayerData(game_code, body.player_data))
            IN  /\ Cardinality(pending) < MaxPending
                /\ Len(games[id].players) + Cardinality(PendingJoins(id))
                       < MaxRoster
                /\ pending' = pending \cup
                       {[slot |-> FreeSlot, op |-> "validateJoinGame",
                         body |-> body, id |-> id, read |-> games[id],
                         game |-> game]}
                /\ UNCHANGED <<req, resp>>
    /\ UNCHANGED <<strictQuery, storeUp, games, drawings, drawingBodies,
                   startedByStatus>>

\* router.post('/validateJoinGame') from await game.save() on
validateJoinGameSave(c) ==
    /\ c.op = "validateJoinGame"
    /\ pending' = pending \ {c}
    /\ req' = [op |-> "validateJoinGame", body |-> c.body]
    /\ IF ~storeUp
       THEN /\ resp' = Caught(500, "store operation failed")
            /\ games' = games
       ELSE /\ games' = GameSaveDelta(c.id, c.read, c.game)
            /\ resp' = [status |-> 200,
                        json |-> [message |-> "User joined the game successfully",
                                  canJoin |-> TRUE,
                                  game |-> [game_code |-> c.game.game_code,
                                            number_of_players |-> c.game.number_of_players,
                                            games_Parts |-> c.game.games_Parts,
                                            players |-> c.game.players]]]
    /\ UNCHANGED <<strictQuery, storeUp, drawings, drawingBodies,
                   startedByStatus>>

\* router.put('/updateGameStatus') up to await game.save()
updateGameStatusRead(body) ==
    LET id == GameFindOne(body.game_code)
        request == [op |-> "updateGameStatus", body |-> body]
    IN
    /\ IF ~storeUp
       THEN /\ resp' = Caught(500, "store operation failed")
            /\ req' = request
            /\ pending' = pending
       ELSE IF id = 0
       THEN /\ resp' = [status |-> 404, json |-> [message |-> "Game not found"]]
            /\ req' = request
            /\ pending' = pending
       ELSE /\ Cardinality(pending) < MaxPending
            /\ pending' = pending \cup
                   {[slot |-> FreeSlot, op |-> "updateGameStatus",
                     body |-> body, id |-> id, read |-> games[id],
                     game |-> ApplyStatus(games[id], body)]}
            /\ UNCHANGED <<req, resp>>
    /\ UNCHANGED <<strictQuery, storeUp, games, drawings, drawingBodies,
                   startedByStatus>>

\* router.put('/updateGameStatus') from await game.save() on
updateGameStatusSave(c) ==
    /\ c.op = "updateGameStatus"
    /\ pending' = pending \ {c}
    /\ req' = [op |-> "updateGameStatus", body |-> c.body]
    /\ IF ~storeUp
       THEN /\ resp' = Caught(500, "store operation failed")
            /\ games' = games
            /\ startedByStatus' = startedByStatus
       ELSE /\ games' = GameSaveDelta(c.id, c.read, c.game)
            /\ resp' = [status |-> 200,
                        json |-> [message |-> "Game status updated successfully",
                                  game |-> c.game]]
            /\ startedByStatus' =
                 IF "start_game" \in DOMAIN c.body
                 THEN IF c.body.start_game THEN startedByStatus \cup {c.id}
                      ELSE startedByStatus \ {c.id}
                 ELSE startedByStatus
    /\ UNCHANGED <<strictQuery, storeUp, drawings, drawingBodies>>

\* The response of incompleteUsers for the game document it read.
incompleteUsersOf(game, game_code, part_name) ==
    LET allPlayerNames == PlayerNamesOf(game)
        completed == DrawingFind(CompletedFilter(game_code, part_name))
        completedPlayerNames ==
            {completed[i].player_name : i \in 1..Len(completed)}
        incompletePlayers == FilterIncomplete(allPlayerNames, completedPlayerNames)
    IN  [status |-> 200, json |-> [incompletePlayers |-> incompletePlayers]]

\* router.get('/incompleteUsers/:game_code/:part_name') up to
\* await Drawing.find
incompleteUsersReadGame(game_code, part_name) ==
    LET id == GameFindOne(game_code)
        request == [op |-> "incompleteUsers", game_code |-> game_code,
                    part_name |-> part_name]
    IN
    /\ IF ~storeUp
       THEN /\ resp' = Caught(500, "store operation failed")
            /\ req' = request
            /\ pending' = pending
       ELSE IF id = 0
       THEN /\ resp' = [status |-> 404, json |-> [message |-> "Game not found"]]
            /\ req' = request
            /\ pending' = pending
       ELSE /\ Cardinality(pending) < MaxPending
            /\ pending' = pending \cup
                   {[slot |-> FreeSlot, op |-> "incompleteUsers",
                     game_code |-> game_code, part_name |-> part_name,
                     id |-> id, game |-> games[id],
                     states |-> {[games |-> games,
                                  drawingBodies |-> drawingBodies]}]}
            /\ UNCHANGED <<req, resp>>
    /\ UNCHANGED <<strictQuery, storeUp, games, drawings, drawingBodies,
                   startedByStatus>>

\* router.get('/incompleteUsers/:game_code/:part_name') from
\* await Drawing.find on
incompleteUsersReadDrawings(c) ==
    /\ c.op = "incompleteUsers"
    /\ pending' = pending \ {c}
    /\ req' = [op |-> "incompleteUsers", game_code |-> c.game_code,
               part_name |-> c.part_name]
    /\ resp' = IF ~storeUp
               THEN Caught(500, "store operation failed")
               ELSE incompleteUsersOf(c.game, c.game_code, c.part_name)
    /\ UNCHANGED <<strictQuery, storeUp, games, drawings, drawingBodies,
                   startedByStatus>>

\* The connection to the document store is lost or comes back.
storeConnection ==
    /\ storeUp' = ~storeUp
    /\ UNCHANGED <<strictQuery, pending, games, drawings, drawingBodies,
                   startedByStatus, req, resp>>

\* ----------------------------------------------------------- specification
Init ==
    /\ strictQuery \in BOOLEAN
    /\ storeUp = TRUE
    /\ pending = {}
    /\ games = <<>>
    /\ drawings = <<>>
    /\ drawingBodies = <<>>
    /\ startedByStatus = {}
    /\ req = NoRequest
    /\ resp = NoResponse

\* The lobby: creating games, joining, the lobby flags.
NextLobby ==
    \/ \E gameData \in GameBodies : storeGameState(gameData)
    \/ \E body \in JoinBodies : validateJoinGame(body)
    \/ \E body \in JoinBodies : updateGameWithPlayer(body)
    \/ \E body \in FlagBodies : updateGameStatus(body)
    \/ \E game_code \in GameCodes : getGameData(game_code)

SpecLobby == Init /\ [][NextLobby]_vars

\* Completion tracking: open lobbies, their rosters and the drawings.
NextDrawings ==
    \/ \E gameData \in OpenGameBodies : storeGameState(gameData)
    \/ \E body \in JoinBodies : validateJoinGame(body)
    \/ \E drawingData \in DrawingBodies : updateDrawingStatus(drawingData)
    \/ \E game_code \in GameCodes, part_name \in PartNames :
          incompleteUsers(game_code, part_name)

SpecDrawings == Init /\ [][NextDrawings]_vars

\* Reading drawings back: the submissions, getDrawing and completedDrawings.
NextFetch ==
    \/ \E drawingData \in DrawingBodies : updateDrawingStatus(drawingData)
    \/ \E game_code \in GameCodes, player_name \in PlayerNames,
          part_name \in PartNames :
          getDrawing(game_code, player_name, part_name)
    \/ \E game_code \in GameCodes : completedDrawings(game_code)

SpecFetch == Init /\ [][NextFetch]_vars

\* The whole API with a store that can fail: every handler, on a reduced
\* set of requests (one player name, one part, completed drawings, lobbies
\* that accept joins).
ApiGameBodies == {b \in GameBodies : b.join /\ b.number_of_players = 0}

ApiJoinBodies == {b \in JoinBodies : b.player_data.player_name = "test"}

ApiStatusBodies ==
    {b \in FlagBodies : DOMAIN b = {"game_code", "start_game"} /\ b.start_game}

ApiDrawingBodies ==
    {b \in DrawingBodies :
        b.player_name = "test" /\ b.player_part = "Hat" /\ b.is_completed}

NextApi ==
    \/ \E gameData \in ApiGameBodies \cup InvalidGameBodies :
          storeGameState(gameData)
    \/ \E drawingData \in ApiDrawingBodies \cup InvalidDrawingBodies :
          updateDrawingStatus(drawingData)
    \/ \E body \in ApiJoinBodies : validateJoinGame(body)
    \/ \E body \in ApiJoinBodies : updateGameWithPlayer(body)
    \/ \E body \in ApiStatusBodies : updateGameStatus(body)
    \/ \E game_code \in GameCodes : incompleteUsers(game_code, "Hat")
    \/ \E game_code \in GameCodes : getDrawing(game_code, "test", "Hat")
    \/ \E game_code \in GameCodes : completedDrawings(game_code)
    \/ \E game_code \in GameCodes : getGameData(game_code)
    \/ storeConnection

SpecApi == Init /\ [][NextApi]_vars

\* Overlapping requests on one lobby: joins and status updates whose reads
\* and saves interleave.
RaceGameBodies == {b \in OpenGameBodies : b.game_code = "1000"}

RaceJoinBodies == {b \in JoinBodies : b.game_code = "1000"}

RaceStatusBodies ==
    {b \in StatusBodies :
        /\ b.game_code = "1000"
        /\ Cardinality(DOMAIN b) = 2
        /\ "join" \in DOMAIN b => ~b.join}

NextRace ==
    \/ \E gameData \in RaceGameBodies : storeGameState(gameData)
    \/ \E body \in RaceJoinBodies : validateJoinGameRead(body)
    \/ \E c \in pending : validateJoinGameSave(c)
    \/ \E body \in RaceStatusBodies : updateGameStatusRead(body)
    \/ \E c \in pending : updateGameStatusSave(c)

SpecRace == Init /\ [][NextRace]_vars

\* Creating games and reading them back: lobbies submitted with an empty
\* roster or with their first player.
CreateGameBodies ==
    GameBodies \cup
    {[b EXCEPT !.players = <<[player_name |-> "test", game_code |-> b.game_code]>>] :
        b \in GameBodies}

NextCreate ==
    \/ \E gameData \in CreateGameBodies : storeGameState(gameData)
    \/ \E game_code \in GameCodes : getGameData(game_code)

SpecCreate == Init /\ [][NextCreate]_vars

\* Part names that are none of the games_Parts of a game.
OtherPartNames == {"Tail"}

\* Drawings of one lobby for a part of the game and for a part that is none.
PartDrawingBodies ==
    [game_code : {"1000"}, player_name : PlayerNames,
     player_part : {"Hat"} \cup OtherPartNames,
     is_completed : BOOLEAN, drawing_points : {<<>>}]

\* Part names that the game does not have: one lobby, its roster, drawings
\* and incompleteUsers for any part name.
NextParts ==
    \/ \E gameData \in RaceGameBodies : storeGameState(gameData)
    \/ \E body \in RaceJoinBodies : validateJoinGame(body)
    \/ \E drawingData \in PartDrawingBodies : updateDrawingStatus(drawingData)
    \/ \E game_code \in GameCodes, part_name \in PartNames \cup OtherPartNames :
          incompleteUsers(game_code, part_name)

SpecParts == Init /\ [][NextParts]_vars

\* incompleteUsers overlapped by writes: one lobby, joins and completed
\* drawings that are stored between its two reads.
SnapshotDrawingBodies ==
    {b \in DrawingBodies :
        b.game_code = "1000" /\ b.player_part = "Hat" /\ b.is_completed}

NextSnapshot ==
    \/ \E gameData \in RaceGameBodies : storeGameState(gameData)
    \/ \E body \in RaceJoinBodies : validateJoinGame(body)
    \/ \E drawingData \in SnapshotDrawingBodies :
          updateDrawingStatus(drawingData)
    \/ \E game_code \in GameCodes : incompleteUsersReadGame(game_code, "Hat")
    \/ \E c \in pending : incompleteUsersReadDrawings(c)

SpecSnapshot == Init /\ [][NextSnapshot]_vars

\* Completion over time: one lobby, joins, a flag update, drawings of one
\* part that are completed or not, and incompleteUsers.
CompletionDrawingBodies ==
    {b \in DrawingBodies : b.game_code = "1000" /\ b.player_part = "Hat"}

CompletionStatusBodies == {b \in ApiStatusBodies : b.game_code = "1000"}

NextCompletion ==
    \/ \E gameData \in RaceGameBodies : storeGameState(gameData)
    \/ \E body \in RaceJoinBodies : validateJoinGame(body)
    \/ \E body \in CompletionStatusBodies : updateGameStatus(body)
    \/ \E drawingData \in CompletionDrawingBodies :
          updateDrawingStatus(drawingData)
    \/ \E game_code \in GameCodes : incompleteUsers(game_code, "Hat")

SpecCompletion == Init /\ [][NextCompletion]_vars

\* ------------------------------------------------- vocabulary of the claims
Range(seq) == {seq[i] : i \in 1..Len(seq)}

\* The game a game code stands for: the first Game document with that code
\* (0 when there is none).
GameOf(G) ==
    LET hits == {i \in 1..Len(games) : games[i].game_code = G}
    IN  IF hits = {} THEN 0 ELSE CHOOSE i \in hits : \A j \in hits : i <= j

\* The roster player names of game G, in roster order.
RosterNames(G) ==
    [i \in 1..Len(games[GameOf(G)].players) |->
        games[GameOf(G)].players[i].player_name]

\* The names with a Drawing submitted for game G, part P, is_completed true.
SubmittedCompleted(G, P) ==
    {drawingBodies[i].player_name : i \in
        {j \in 1..Len(drawingBodies) :
            /\ drawingBodies[j].game_code = G
            /\ drawingBodies[j].player_part = P
            /\ drawingBodies[j].is_completed}}

\* The names with a stored Drawing record for part P, is_completed true.
StoredCompleted(P) ==
    {drawings[i].player_name : i \in
        {j \in 1..Len(drawings) :
            drawings[j].player_part = P /\ drawings[j].is_completed}}

\* The names with a stored Drawing record for part P, is_completed false.
StoredNotCompleted(P) ==
    {drawings[i].player_name : i \in
        {j \in 1..Len(drawings) :
            drawings[j].player_part = P /\ ~drawings[j].is_completed}}

\* The last request was an incompleteUsers that found its game.
IncompleteUsersAnswered == req.op = "incompleteUsers" /\ resp.status = 200

\* ------------------------------------------------------------------ claims
\* C1: incompleteUsers(G,P) returns exactly the roster names of G, in roster
\* order and with duplicates, without the names that have a completed
\* Drawing for game G and part P.
C1_RosterMinusCompleted ==
    IncompleteUsersAnswered =>
        resp.json.incompletePlayers =
            SelectSeq(RosterNames(req.game_code),
                      LAMBDA name :
                          name \notin SubmittedCompleted(req.game_code, req.part_name))

\* C2: a roster player with no is_completed=true Drawing record for part P is
\* in incompleteUsers(G,P), with no record for P at all and with records for
\* P that are all is_completed=false.
C2_NotCompletedIsListed ==
    IncompleteUsersAnswered =>
        \A name \in Range(RosterNames(req.game_code)) :
            name \notin StoredCompleted(req.part_name) =>
                name \in Range(resp.json.incompletePlayers)

\* C2 witness: a response that lists one roster player without any Drawing
\* for the part and another whose only Drawings for the part are not
\* completed.
C2_Witness ==
    /\ IncompleteUsersAnswered
    /\ \E n1, n2 \in Range(resp.json.incompletePlayers) :
          /\ n1 \notin StoredCompleted(req.part_name)
          /\ n1 \notin StoredNotCompleted(req.part_name)
          /\ n2 \in StoredNotCompleted(req.part_name)
          /\ n2 \notin StoredCompleted(req.part_name)

\* C9: after updateDrawingStatus stores a completed Drawing (G, N, P),
\* incompleteUsers(G,P) does not contain N and incompleteUsers(G,P') is as
\* before for every other part P'.
C9_CompletedDrawingRemovesName ==
    [][ \A G \in GameCodes, N \in PlayerNames, P \in PartNames :
        ( /\ Len(drawings') = Len(drawings) + 1
          /\ drawingBodies'[Len(drawingBodies')].game_code = G
          /\ drawingBodies'[Len(drawingBodies')].player_name = N
          /\ drawingBodies'[Len(drawingBodies')].player_part = P
          /\ drawingBodies'[Len(drawingBodies')].is_completed
          /\ GameOf(G) # 0 )
        =>
        /\ N \notin Range(incompleteUsersResponse(G, P)'.json.incompletePlayers)
        /\ \A P2 \in PartNames \ {P} :
             incompleteUsersResponse(G, P2)' = incompleteUsersResponse(G, P2)
      ]_vars

\* C10: a completed Drawing submitted with game code G1 for name N and part P
\* does not remove N from incompleteUsers(G2,P) of another game G2 with N on
\* its roster.
C10_CompletionIsPerGame ==
    IncompleteUsersAnswered =>
        \A name \in Range(RosterNames(req.game_code)) :
            ( /\ name \notin SubmittedCompleted(req.game_code, req.part_name)
              /\ \E G1 \in GameCodes \ {req.game_code} :
                    name \in SubmittedCompleted(G1, req.part_name) )
            => name \in Range(resp.json.incompletePlayers)

\* The game a join request is for, before the request is handled.
JoinStep == req'.op = "validateJoinGame" /\ GameOf(req'.body.game_code) # 0
JoinGame == games[GameOf(req'.body.game_code)]
JoinGameAfter == games'[GameOf(req'.body.game_code)]

\* The roster and number_of_players of the game of the join are unchanged.
JoinGameUntouched ==
    /\ JoinGameAfter.players = JoinGame.players
    /\ JoinGameAfter.number_of_players = JoinGame.number_of_players

\* C3: validateJoinGame on a game with start_game true answers 400,
\* canJoin:false, "Room already started" whatever join is, and leaves the
\* roster and number_of_players unchanged.
C3_StartedGameRefusesJoin ==
    [][ (JoinStep /\ JoinGame.start_game) =>
        /\ resp' = [status |-> 400,
                    json |-> [message |-> "Room already started",
                              canJoin |-> FALSE]]
        /\ JoinGameUntouched
      ]_vars

\* C3 witness: a join refused as started on a game whose join flag is true.
C3_Witness ==
    /\ req.op = "validateJoinGame"
    /\ resp.status = 400
    /\ resp.json.message = "Room already started"
    /\ games[GameOf(req.body.game_code)].join
    /\ games[GameOf(req.body.game_code)].start_game

\* C4: validateJoinGame on a game with start_game false and join false
\* answers 400, canJoin:false, "Room is not accepting new players", and
\* leaves the roster and number_of_players unchanged.
C4_ClosedRoomRefusesJoin ==
    [][ (JoinStep /\ ~JoinGame.start_game /\ ~JoinGame.join) =>
        /\ resp' = [status |-> 400,
                    json |-> [message |-> "Room is not accepting new players",
                              canJoin |-> FALSE]]
        /\ JoinGameUntouched
      ]_vars

\* C4 witness: a join refused as closed on a game that has a player already.
C4_Witness ==
    /\ req.op = "validateJoinGame"
    /\ resp.status = 400
    /\ resp.json.message = "Room is not accepting new players"
    /\ ~games[GameOf(req.body.game_code)].join
    /\ ~games[GameOf(req.body.game_code)].start_game
    /\ Len(games[GameOf(req.body.game_code)].players) > 0

\* C5: validateJoinGame on a game with start_game false and join true answers
\* 200, canJoin:true, and the stored roster is the previous roster with the
\* submitted player appended at the end.
C5_OpenGameAppendsPlayer ==
    [][ (JoinStep /\ ~JoinGame.start_game /\ JoinGame.join) =>
        /\ resp'.status = 200
        /\ resp'.json.canJoin = TRUE
        /\ Len(JoinGameAfter.players) = Len(JoinGame.players) + 1
        /\ SubSeq(JoinGameAfter.players, 1, Len(JoinGame.players)) = JoinGame.players
        /\ JoinGameAfter.players[Len(JoinGameAfter.players)].player_name =
             req'.body.player_data.player_name
      ]_vars

\* C5 witness: a successful join onto a roster that had a player already.
C5_Witness ==
    /\ req.op = "validateJoinGame"
    /\ resp.status = 200
    /\ resp.json.canJoin
    /\ Len(games[GameOf(req.body.game_code)].players) = 2
    /\ games[GameOf(req.body.game_code)].players[1].player_name #
         req.body.player_data.player_name

\* C6: after a successful validateJoinGame or updateGameWithPlayer the stored
\* number_of_players is the length of the stored roster, whatever it was
\* before.
C6_NumberOfPlayersIsRosterLength ==
    [][ ( /\ req'.op \in {"validateJoinGame", "updateGameWithPlayer"}
          /\ resp'.status = 200 )
        =>
        games'[GameOf(req'.body.game_code)].number_of_players =
            Len(games'[GameOf(req'.body.game_code)].players)
      ]_vars

\* C6 witness: a successful roster append to a game whose number_of_players
\* was not its roster length when it was created.
C6_Witness ==
    /\ req.op \in {"validateJoinGame", "updateGameWithPlayer"}
    /\ resp.status = 200
    /\ Len(games[GameOf(req.body.game_code)].players) = 1
    /\ games[GameOf(req.body.game_code)].number_of_players = 1
    /\ \E gameData \in GameBodies :
          /\ gameData.number_of_players = 1
          /\ gameData.players = <<>>
          /\ games[GameOf(req.body.game_code)] =
               PushPlayer(NewGame(gameData),
                          UpdatedPlayerData(req.body.game_code, req.body.player_data))

\* C7: once an updateGameStatus with start_game:true has completed for a
\* game, and until one with start_game:false does, every validateJoinGame
\* for the game answers 400, canJoin:false, "Room already started".
C7_JoinAfterStartIsRefused ==
    [][ (JoinStep /\ GameOf(req'.body.game_code) \in startedByStatus) =>
        resp' = [status |-> 400,
                 json |-> [message |-> "Room already started",
                           canJoin |-> FALSE]]
      ]_vars

\* C7 witness: a join refused on a game that updateGameStatus started after
\* a player had joined.
C7_Witness ==
    /\ req.op = "validateJoinGame"
    /\ resp.status = 400
    /\ GameOf(req.body.game_code) \in startedByStatus
    /\ Len(games[GameOf(req.body.game_code)].players) > 0

\* C8: once start_game is true for a game, no operation changes the game's
\* roster while start_game stays true.
C8_StartedRosterIsFrozen ==
    [][ \A i \in 1..Len(games) :
            (games[i].start_game /\ games'[i].start_game) =>
                games'[i].players = games[i].players
      ]_vars

\* The stored Drawing records that were submitted for game G with
\* is_completed = TRUE, in the order of their submission.
CompletedDrawingsOf(G) ==
    LET positions == SelectSeq([i \in 1..Len(drawings) |-> i],
                               LAMBDA i : /\ drawingBodies[i].game_code = G
                                          /\ drawingBodies[i].is_completed)
    IN  [k \in 1..Len(positions) |-> drawings[positions[k]]]

\* C11: completedDrawings/G answers 200 with exactly the Drawing records of
\* game G whose is_completed is true, and 404 when game G has no completed
\* drawing, also when other games have completed drawings.
C11_CompletedDrawingsOfGame ==
    req.op = "completedDrawings" =>
        LET expected == CompletedDrawingsOf(req.game_code) IN
        IF expected = <<>>
        THEN resp.status = 404
        ELSE resp.status = 200 /\ resp.json = expected

\* The operations that look their game up by game_code.
GameLookupOps ==
    {"incompleteUsers", "getGameData", "updateGameWithPlayer",
     "updateGameStatus", "validateJoinGame"}

\* The game_code of a request of GameLookupOps.
RequestCode(request) ==
    IF "body" \in DOMAIN request THEN request.body.game_code
    ELSE request.game_code

\* A step of a handler (every other step is the store connection changing).
HandlerStep == storeUp' = storeUp

\* C12: when no Game has the requested game_code, incompleteUsers,
\* getGameData, updateGameWithPlayer, updateGameStatus and validateJoinGame
\* answer 404 "Game not found" and leave both collections as they were; no
\* game is created, also when Drawing records exist for that code.
C12_MissingGameIsNotFound ==
    [][\A G \in GameCodes :
          (/\ HandlerStep /\ storeUp
           /\ req'.op \in GameLookupOps
           /\ RequestCode(req') = G
           /\ GameOf(G) = 0)
          => /\ resp' = [status |-> 404, json |-> [message |-> "Game not found"]]
             /\ games' = games
             /\ drawings' = drawings]_vars

\* incompleteUsers answered 404 for a code that has drawings and no game,
\* while another game exists.
C12_Witness ==
    /\ req.op = "incompleteUsers"
    /\ resp.status = 404
    /\ GameOf(req.game_code) = 0
    /\ games # <<>>
    /\ \E i \in 1..Len(drawingBodies) : drawingBodies[i].game_code = req.game_code

\* The four read operations.
ReadOps == {"incompleteUsers", "getDrawing", "completedDrawings", "getGameData"}

\* C13: incompleteUsers, getDrawing, completedDrawings and getGameData leave
\* both collections as they were, and an incompleteUsers call repeated with
\* the same arguments right after an answered one gets the same answer.
C13_ReadsChangeNothing ==
    [][(HandlerStep /\ req'.op \in ReadOps)
          => /\ games' = games
             /\ drawings' = drawings
             /\ \A G \in GameCodes, P \in PartNames :
                   (/\ req'.op = "incompleteUsers"
                    /\ req'.game_code = G
                    /\ req'.part_name = P)
                   => incompleteUsersResponse(G, P)' = resp']_vars

\* incompleteUsers answered with a list of names while drawings are stored.
C13_Witness ==
    /\ req.op = "incompleteUsers"
    /\ resp.status = 200
    /\ resp.json.incompletePlayers # <<>>
    /\ drawings # <<>>

\* C14: two validateJoinGame requests on the same open game that both read
\* the game before either writes lose an update: when the second of them has
\* answered 200 canJoin:true as the first did, the stored roster lacks one of
\* the two players or the stored number_of_players is smaller than the
\* length of the stored roster.
C14_RacingJoinsLoseAnUpdate ==
    [][\A c \in pending :
          (/\ c.op = "validateJoinGame"
           /\ pending' = pending \ {c}
           /\ resp'.status = 200 /\ resp'.json.canJoin
           /\ games[c.id].players # c.read.players)
          => LET stored == games'[c.id]
                 own == c.game.players[Len(c.game.players)]
                 both == games[c.id].players \o <<own>>
             IN  \/ stored.players # both
                 \/ stored.number_of_players < Len(stored.players)]_vars

\* A join has answered 200 with a roster that is shorter than the stored
\* one: another join wrote between its read and its save.
C14_Witness ==
    /\ req.op = "validateJoinGame"
    /\ resp.status = 200
    /\ LET stored == games[GameOf(req.body.game_code)] IN
       /\ Len(resp.json.game.players) < Len(stored.players)
       /\ stored.number_of_players < Len(stored.players)

\* The fields of a game that C15 names.
GameFields ==
    {"game_code", "games_Parts", "players", "join", "start_game",
     "drawing_time", "number_of_players"}

\* C15: after storeGameState has succeeded for a game code that no game had
\* before, getGameData for that code answers 200 with a game that has the
\* submitted game_code, games_Parts, players, join, start_game, drawing_time
\* and number_of_players.
C15_StoredGameIsReadBack ==
    [][\A G \in GameCodes :
          (/\ req.op = "storeGameState" /\ resp.status = 201
           /\ req.body.game_code = G
           /\ GameOf(G) = Len(games)
           /\ req'.op = "getGameData" /\ req'.game_code = G)
          => /\ resp'.status = 200
             /\ \A f \in GameFields :
                   /\ f \in DOMAIN resp'.json.game
                   /\ resp'.json.game[f] = req.body[f]]_vars

\* getGameData answered with the game of its code, which was submitted with
\* a player in its roster.
C15_Witness ==
    /\ req.op = "getGameData"
    /\ resp.status = 200
    /\ resp.json.game.players # <<>>
    /\ resp.json.game = games[GameOf(req.game_code)]
    /\ GameOf(req.game_code) = Len(games)

\* The request reaches the store: its body passes the validation that runs
\* before the write (the other operations start with a store read).
ReachesStore(request) ==
    /\ request.op = "storeGameState" => GameValid(request.body)
    /\ request.op = "updateDrawingStatus" => DrawingValid(request.body)

\* C16: a request that is handled while the store fails is answered 500,
\* never 400 or 404, whatever the operation.
C16_StoreFailureIs500 ==
    [][(HandlerStep /\ ~storeUp /\ ReachesStore(req'))
          => resp'.status = 500]_vars

\* The operations that write.
WriteOps ==
    {"storeGameState", "updateDrawingStatus", "updateGameWithPlayer",
     "updateGameStatus", "validateJoinGame"}

\* C17: when storeGameState, updateDrawingStatus, updateGameWithPlayer,
\* updateGameStatus or validateJoinGame answers with an error status, both
\* collections are as they were before the request: no record is created
\* and none is changed.
C17_ErrorChangesNothing ==
    [][(HandlerStep /\ req'.op \in WriteOps /\ resp'.status \notin {200, 201})
          => games' = games /\ drawings' = drawings]_vars

\* A write was answered with an error while both collections hold records.
C17_Witness ==
    /\ req.op \in WriteOps
    /\ resp.status \in {400, 404, 500}
    /\ games # <<>>
    /\ drawings # <<>>

\* C18: drawings are never updated in place or deleted. A successful
\* updateDrawingStatus adds exactly one record at the end and changes none;
\* every other step leaves the records that exist as they are, so a second
\* submission for the same game, player and part leaves two records.
C18_DrawingsOnlyGrow ==
    [][/\ Len(drawings') >= Len(drawings)
       /\ SubSeq(drawings', 1, Len(drawings)) = drawings
       /\ (HandlerStep /\ req'.op = "updateDrawingStatus" /\ resp'.status = 201)
             => /\ Len(drawings') = Len(drawings) + 1
                /\ drawings'[Len(drawings')] = resp'.json.drawing
       /\ ~(HandlerStep /\ req'.op = "updateDrawingStatus" /\ resp'.status = 201)
             => drawings' = drawings]_vars

\* Two records are stored for one game, player and part, and the request
\* handled last is the second submission.
C18_Witness ==
    /\ Len(drawings) = 2
    /\ drawingBodies[1].game_code = drawingBodies[2].game_code
    /\ drawingBodies[1].player_name = drawingBodies[2].player_name
    /\ drawingBodies[1].player_part = drawingBodies[2].player_part
    /\ req.op = "updateDrawingStatus"
    /\ resp.status = 201

\* The submissions for game G, player N and part P.
SubmittedFor(G, N, P) ==
    {i \in 1..Len(drawingBodies) :
        /\ drawingBodies[i].game_code = G
        /\ drawingBodies[i].player_name = N
        /\ drawingBodies[i].player_part = P}

\* C19: getDrawing(G, N, P) answers 200 with the drawing_points and
\* is_completed of a Drawing submitted for exactly G, N and P when there is
\* one, and 404 "Drawing not found" when there is none, also when the same
\* player and part have a Drawing in another game.
C19_GetDrawingOfTriple ==
    req.op = "getDrawing" =>
        LET subs == SubmittedFor(req.game_code, req.player_name, req.part_name)
        IN  IF subs = {}
            THEN resp = [status |-> 404,
                         json |-> [message |-> "Drawing not found"]]
            ELSE /\ resp.status = 200
                 /\ \E i \in subs :
                       resp.json =
                           [drawing_points |-> drawingBodies[i].drawing_points,
                            is_completed |-> drawingBodies[i].is_completed]

\* The flags a request of updateGameStatus gives.
GivenFlags(body) == (DOMAIN body) \ {"game_code"}

GamesWithCode(G) == {i \in 1..Len(games) : games[i].game_code = G}

\* C21: storeGameState does not reject a game code that a game already has:
\* the new game is stored next to the old one. Every getGameData,
\* incompleteUsers, validateJoinGame, updateGameWithPlayer and
\* updateGameStatus by that code then reads and changes the first game with
\* the code only; every other game stays as it is.
C21_DuplicateCodeFirstMatch ==
    [][/\ (/\ HandlerStep /\ storeUp
           /\ req'.op = "storeGameState"
           /\ GameValid(req'.body))
          => /\ resp'.status = 201
             /\ games' = Append(games, resp'.json.game)
             /\ resp'.json.game.game_code = req'.body.game_code
       /\ \A G \in GameCodes :
            (/\ HandlerStep /\ storeUp
             /\ req'.op \in GameLookupOps
             /\ RequestCode(req') = G
             /\ GameOf(G) # 0)
            => /\ Len(games') = Len(games)
               /\ \A i \in 1..Len(games) :
                     i # GameOf(G) => games'[i] = games[i]
               /\ req'.op = "getGameData"
                     => resp'.json.game = games[GameOf(G)]
               /\ (req'.op = "incompleteUsers" /\ StoredCompleted(req'.part_name) = {})
                     => resp'.json.incompletePlayers = RosterNames(G)
               /\ (req'.op \in {"validateJoinGame", "updateGameWithPlayer"}
                      /\ resp'.status = 200)
                     => /\ resp'.json.game.players = games'[GameOf(G)].players
                        /\ Len(games'[GameOf(G)].players) =
                              Len(games[GameOf(G)].players) + 1
               /\ (req'.op = "updateGameStatus" /\ resp'.status = 200)
                     => resp'.json.game = games'[GameOf(G)]]_vars

\* Two games carry the code of the request handled last, a join that was
\* accepted: the first of them has the player, the second has none.
C21_Witness ==
    /\ req.op = "validateJoinGame"
    /\ resp.status = 200
    /\ Cardinality(GamesWithCode(req.body.game_code)) = 2
    /\ games[1].players # <<>>
    /\ games[2].players = <<>>

RosterMinusCompletedOn(s, G, P) ==
    LET hits == {i \in 1..Len(s.games) : s.games[i].game_code = G}
        first == CHOOSE i \in hits : \A j \in hits : i <= j
        roster == [i \in 1..Len(s.games[first].players) |->
                      s.games[first].players[i].player_name]
        completed ==
            {s.drawingBodies[i].player_name : i \in
                {j \in 1..Len(s.drawingBodies) :
                    /\ s.drawingBodies[j].game_code = G
                    /\ s.drawingBodies[j].player_part = P
                    /\ s.drawingBodies[j].is_completed}}
    IN  SelectSeq(roster, LAMBDA name : name \notin completed)

\* C23: the list that incompleteUsers(G,P) returns is the roster of G without
\* the names completed for G and P on one state that the store was in between
\* the request's read of the game and its response, also when joins and
\* drawing submissions are stored between its two reads.
C23_AnswerIsOfOneStoreState ==
    [][\A c \in pending :
          (/\ c.op = "incompleteUsers"
           /\ pending' = pending \ {c}
           /\ resp'.status = 200)
          => \E s \in c.states :
                resp'.json.incompletePlayers =
                    RosterMinusCompletedOn(s, c.game_code, c.part_name)]_vars

\* incompleteUsers(G,P) excludes name N: it answers 200, N is a roster name
\* of G and N is not in the list.
Excludes(G, P, N) ==
    /\ incompleteUsersResponse(G, P).status = 200
    /\ N \in Range(RosterNames(G))
    /\ N \notin Range(incompleteUsersResponse(G, P).json.incompletePlayers)

\* C24: completion is monotonic. Once incompleteUsers(G,P) excludes a player
\* name it excludes that name after every further operation: a drawing
\* submitted again for the part with is_completed false, a second join with
\* the same name, a flag update.
C24_CompletionIsMonotonic ==
    [][\A G \in GameCodes, P \in PartNames, N \in PlayerNames :
          Excludes(G, P, N) => Excludes(G, P, N)']_vars

\* incompleteUsers has excluded a roster name whose completed drawing was
\* followed by a drawing of the same part that is not completed, in a game
\* that was started.
C24_Witness ==
    /\ IncompleteUsersAnswered
    /\ games[GameOf(req.game_code)].start_game
    /\ \E N \in Range(RosterNames(req.game_code)) :
          /\ N \notin Range(resp.json.incompletePlayers)
          /\ Len(drawings) = 2
          /\ drawings[1].player_name = N /\ drawings[1].is_completed
          /\ drawings[2].player_name = N /\ ~drawings[2].is_completed
          /\ drawings[1].player_part = req.part_name
          /\ drawings[2].player_part = req.part_name

\* C25: updateDrawingStatus accepts a Drawing whose game_code has no Game
\* and whose player name is on no roster (201, the record is stored), and
\* incompleteUsers never returns a name that is not on the roster: every
\* name in its list is the player_name of a roster entry of the game.
C25_ListedNamesAreOnTheRoster ==
    /\ req.op = "updateDrawingStatus"
          => /\ resp.status = 201
             /\ drawings # <<>>
             /\ drawings[Len(drawings)] = resp.json.drawing
             /\ drawingBodies[Len(drawings)] = req.body
    /\ IncompleteUsersAnswered
          => Range(resp.json.incompletePlayers)
                \subseteq Range(RosterNames(req.game_code))

\* incompleteUsers answered with names while the two stored drawings are one
\* for a game code that has no game and one for a name that is not on the
\* roster of the game asked for.
C25_Witness ==
    /\ IncompleteUsersAnswered
    /\ resp.json.incompletePlayers # <<>>
    /\ \E i \in 1..Len(drawingBodies) : GameOf(drawingBodies[i].game_code) = 0
    /\ \E i \in 1..Len(drawingBodies) :
          /\ drawingBodies[i].game_code = req.game_code
          /\ drawingBodies[i].player_part = req.part_name
          /\ drawingBodies[i].player_name \notin Range(RosterNames(req.game_code))

=============================================================================
